---- MODULE Spec2Model ----
(***************************************************************************)
(* A model of src/src/mine.rs: the mining pass loop (Miner::mine), the     *)
(* parallel proof-of-work search (Miner::find_hash_par) and the deadline   *)
(* computation (Miner::get_cutoff).                                        *)
(*                                                                         *)
(* Machine integers are scaled down: u64 nonces live in 0..MAX_NONCE and   *)
(* wrap modulo MAX_NONCE + 1 (the release profile's `nonce += 1`), i64     *)
(* timestamps live in I64_MIN..I64_MAX with saturating arithmetic, and the *)
(* worker's check-point period (100 in the source) is CHECK_EVERY.         *)
(* Balances are integers in thousandths of SOL / ORE.                      *)
(***************************************************************************)
EXTENDS Integers, Sequences, FiniteSets, TLC

\* ------------------------------------------------------------ bounds
MAX_NONCE == 7
CHECK_EVERY == 3
MaxThreads == 4
MaxElapsed == 2
I64_MAX == 127
MaxPass == 2
MaxDrift == 1

\* ------------------------------------------------- program constants
MIN_DIFFICULTY == 1
MIN_SOL_BALANCE == 5
NOMINAL_WINDOW == 60
WAIT_TICKS == 60
EPOCH_DURATION == 60
RESET_BUFFER == 5

I64_MIN == -I64_MAX - 1
U64_MAX == 2 * I64_MAX + 1

Max(a, b) == IF a >= b THEN a ELSE b
Min(a, b) == IF a <= b THEN a ELSE b

Workers == 0 .. (MaxThreads - 1)
Nonces == 0 .. MAX_NONCE

VARIABLES
  \* Miner::find_hash_par: arguments and the calling thread
  threads, challenge, cutoff_time,
  fpc,            \* "idle" | "call" | "spawn" | "join" | "returned"
  timer,          \* timer.elapsed().as_secs()
  spawned,        \* handles created so far
  joined,         \* handles joined so far
  joined_best,    \* best_nonce / best_difficulty / best_hash of lines 272-274
  progress_bar,   \* last message written to the shared progress bar
  solution,       \* the Solution returned
  \* worker threads, indexed by i
  wstate,         \* "unspawned" | "running" | "done"
  nonce, best_nonce, best_difficulty, best_hash, last_elapsed,
  \* history of the current search
  h_start,        \* the nonce each worker started at
  h_hashed,       \* the nonces each worker has passed to the hash function
  h_overdue,      \* hashes begun by a worker after its stop condition held
  h_exit,         \* the elapsed seconds a worker read when it broke out
  h_order,        \* the workers in the order they finished
  \* Miner::mine
  mpc,            \* position of the controller
  args, proof, clock,
  pass, current_sol_balance, current_staked_balance,
  last_sol_balance, last_staked_balance,
  session_ore_mined, session_sol_used,
  tick,           \* iterations of the countdown loop done
  pass_elapsed,   \* pass_start_time.elapsed().as_secs()
  shown,          \* the remaining-seconds value last displayed
  ixs,            \* the instructions last submitted
  h_fetch, h_prev_fetch,   \* balances fetched in this pass / the pass before
  h_before,                \* session totals when this pass began
  h_count,                 \* per-pass counts: ticks, queries, spawns, submits
  h_log,                   \* per-pass record: steps done, submission outcome, reset check
  h_real,                  \* the balances the wallet queries that succeeded returned
  h_write                  \* the last write to the progress bar: who, and what it had read

searchVars == <<threads, challenge, cutoff_time, fpc, timer, spawned, joined,
                joined_best, progress_bar, solution, wstate, nonce, best_nonce,
                best_difficulty, best_hash, last_elapsed,
                h_start, h_hashed, h_overdue, h_exit, h_order, h_write>>
workerVars == <<wstate, nonce, best_nonce, best_difficulty, best_hash,
                last_elapsed, h_start, h_hashed, h_overdue, h_exit, h_order>>
mineVars == <<mpc, args, proof, clock, pass, current_sol_balance,
              current_staked_balance, last_sol_balance, last_staked_balance,
              session_ore_mined, session_sol_used, tick, pass_elapsed, shown,
              ixs, h_fetch, h_prev_fetch, h_before, h_count, h_log, h_real>>
vars == <<searchVars, mineVars>>

\* ------------------------------------------------ the hash function
\* drillx::hash_with_memory is external and deterministic in (challenge,
\* nonce).  Each challenge fixes a periodic table of outcomes: a hash value
\* h in 0..7, or -1 where no solution exists (Err).
Challenges == 0 .. 4

HashTable ==
  << << 4, -1, 2, 5 >>,    \* challenge 0: never above the floor
     << 1, 4, -1, 1 >>,    \* challenge 1: equal maxima in different blocks
     << 2, 0, 6, 1 >>,     \* challenge 2
     << 1, 5, 4, 0 >>,     \* challenge 3: later blocks hold better hashes
     << 1, 5, 4, 6 >> >>   \* challenge 4: one nonce in four is above the floor

HashH(c, n) == HashTable[c + 1][(n % 4) + 1]

\* Hash::default(): all-zero digest and hash
DefaultHash == [d |-> 0, h |-> 0]

\* Ok(hx) or Err: hx.d is the digest of (challenge, nonce), hx.h the hash
hash_with_memory(c, n) ==
  IF HashH(c, n) < 0 THEN [ok |-> FALSE, hx |-> DefaultHash]
  ELSE [ok |-> TRUE, hx |-> [d |-> 1 + n + c * (MAX_NONCE + 1), h |-> HashH(c, n)]]

\* Hash::difficulty(): leading zero bits of a 3-bit hash value
difficulty(hx) ==
  CASE hx.h = 0 -> 3
    [] hx.h = 1 -> 2
    [] hx.h \in {2, 3} -> 1
    [] OTHER -> 0

\* ------------------------------------------------ find_hash_par: pieces
\* a start point taken one block too far
StartNonce_Shifted(i, t) == Min((MAX_NONCE \div t) * (i + 1), MAX_NONCE)

\* line 218: u64::MAX.saturating_div(threads).saturating_mul(i)
StartNonce(i, t) == Min((MAX_NONCE \div t) * i, MAX_NONCE)

\* a comparison that lets an equal difficulty replace the best
Improves_OrEqual(d, best) == d >= best

\* line 231: difficulty.gt(&best_difficulty)
Improves(d, best) == d > best

\* a check-point only on every other multiple of the period
IsCheckPoint_Sparse(n) == n % (2 * CHECK_EVERY) = 0

\* line 239: nonce % 100 == 0
IsCheckPoint(n) == n % CHECK_EVERY = 0

\* a deadline test that fires one second early
TimeUp_Early(elapsed, cutoff) == elapsed + 1 >= cutoff

\* line 240: timer.elapsed().as_secs().ge(&cutoff_time)
TimeUp(elapsed, cutoff) == elapsed >= cutoff

\* a floor test that a best equal to the floor passes
FloorMet_OrEqual(best) == best >= MIN_DIFFICULTY

\* a stop condition without the floor test
FloorMet_Any(best) == TRUE

\* line 241: best_difficulty.gt(&ore::MIN_DIFFICULTY)
FloorMet(best) == best > MIN_DIFFICULTY

\* line 261: nonce += 1 on a u64
NextNonce(n) == (n + 1) % (MAX_NONCE + 1)

\* a progress update every worker makes
IsDesignated_Any(i) == TRUE

\* line 245: else if i == 0
IsDesignated(i) == i = 0

\* a join that returns while the thread is still running
JoinReady_NoWait(w) == TRUE

\* line 276: h.join() returns once the thread has finished
JoinReady(w) == w = "done"

\* the progress bar before anything was written to it
NoWrite == [who |-> "none", i |-> 0, nonce |-> 0, read |-> 0, shown |-> 0,
            prev |-> -1, running |-> 0, started |-> 0, ended |-> 0]

\* the workers that are running
Running == {i \in Workers : wstate[i] = "running"}

\* an aggregation that keeps whatever was joined last
JoinTakes_Always(d, best) == TRUE

\* an aggregation that lets an equal result replace the current best
JoinTakes_OrEqual(d, best) == d >= best

\* line 277: difficulty > best_difficulty
JoinTakes(d, best) == d > best

\* ------------------------------------------------ find_hash_par: steps
\* lines 208-210: start the timer, create the progress bar
FindHashParEnter ==
  /\ fpc = "call"
  /\ fpc' = "spawn"
  /\ timer' = 0
  /\ spawned' = 0
  /\ joined' = 0
  /\ progress_bar' = <<"to go", cutoff_time>>
  /\ h_write' = [NoWrite EXCEPT !.who = "controller",
                                !.running = Cardinality(Running)]
  /\ wstate' = [i \in Workers |-> "unspawned"]
  /\ h_hashed' = [i \in Workers |-> {}]
  /\ h_overdue' = [i \in Workers |-> 0]
  /\ h_exit' = [i \in Workers |-> 0]
  /\ h_start' = [i \in Workers |-> 0]
  /\ h_order' = <<>>
  /\ UNCHANGED <<threads, challenge, cutoff_time, joined_best, solution,
                 nonce, best_nonce, best_difficulty, best_hash, last_elapsed>>

\* lines 211-222: spawn worker i = spawned; the thread initialises its locals
Spawn ==
  /\ fpc = "spawn"
  /\ spawned < threads
  /\ LET i == spawned
         n == StartNonce(i, threads) IN
       /\ wstate' = [wstate EXCEPT ![i] = "running"]
       /\ nonce' = [nonce EXCEPT ![i] = n]
       /\ best_nonce' = [best_nonce EXCEPT ![i] = n]
       /\ best_difficulty' = [best_difficulty EXCEPT ![i] = 0]
       /\ best_hash' = [best_hash EXCEPT ![i] = DefaultHash]
       /\ last_elapsed' = [last_elapsed EXCEPT ![i] = 0]
       /\ h_start' = [h_start EXCEPT ![i] = n]
  /\ spawned' = spawned + 1
  /\ h_count' = [h_count EXCEPT !.spawns = Min(@ + 1, MaxThreads + 1)]
  /\ UNCHANGED <<threads, challenge, cutoff_time, fpc, timer, joined,
                 joined_best, progress_bar, h_write, solution,
                 h_hashed, h_overdue, h_exit, h_order>>
  /\ UNCHANGED <<h_log, mpc, args, proof, clock, pass, current_sol_balance,
                 current_staked_balance, last_sol_balance, last_staked_balance,
                 session_ore_mined, session_sol_used, tick, pass_elapsed,
                 shown, ixs, h_fetch, h_prev_fetch, h_before, h_real>>

\* lines 272-274: all handles collected, the join loop begins
BeginJoin ==
  /\ fpc = "spawn"
  /\ spawned = threads
  /\ fpc' = "join"
  /\ joined' = 0
  /\ joined_best' = [best_nonce |-> 0, best_difficulty |-> 0, best_hash |-> DefaultHash]
  /\ UNCHANGED <<threads, challenge, cutoff_time, timer, spawned,
                 progress_bar, h_write, solution>>
  /\ UNCHANGED workerVars

\* the seconds the clock may show at a later read within one iteration
LaterReads(e) == {e2 \in {e, e + 1} : e2 <= MaxElapsed}

\* lines 223-262: one iteration of worker i's loop
WorkerStep(i) ==
  /\ wstate[i] = "running"
  /\ LET n == nonce[i]
         r == hash_with_memory(challenge, n)
         better == r.ok /\ Improves(difficulty(r.hx), best_difficulty[i])
         bd == IF better THEN difficulty(r.hx) ELSE best_difficulty[i]
         bn == IF better THEN n ELSE best_nonce[i]
         bh == IF better THEN r.hx ELSE best_hash[i]
         \* history only: the deadline has passed and the best is above the floor
         due == timer >= cutoff_time /\ best_difficulty[i] > MIN_DIFFICULTY
     IN
       /\ best_difficulty' = [best_difficulty EXCEPT ![i] = bd]
       /\ best_nonce' = [best_nonce EXCEPT ![i] = bn]
       /\ best_hash' = [best_hash EXCEPT ![i] = bh]
       /\ h_hashed' = [h_hashed EXCEPT ![i] = @ \cup {n}]
       /\ h_overdue' = [h_overdue EXCEPT ![i] =
                          IF due THEN Min(@ + 1, CHECK_EVERY + 1) ELSE @]
       /\ IF IsCheckPoint(n) /\ TimeUp(timer, cutoff_time) /\ FloorMet(bd)
          THEN \* line 243: break; the nonce is not incremented
               /\ wstate' = [wstate EXCEPT ![i] = "done"]
               /\ h_exit' = [h_exit EXCEPT ![i] = timer]
               /\ h_order' = Append(h_order, i)
               /\ UNCHANGED <<nonce, last_elapsed, progress_bar, h_write, timer>>
          ELSE /\ nonce' = [nonce EXCEPT ![i] = NextNonce(n)]
               /\ UNCHANGED <<wstate, h_exit, h_order>>
               /\ IF IsCheckPoint(n) /\ ~TimeUp(timer, cutoff_time) /\ IsDesignated(i)
                  THEN \* lines 246-256: the clock is read a second time
                       \E next_elapsed \in LaterReads(timer) :
                         /\ timer' = next_elapsed
                         /\ IF next_elapsed # last_elapsed[i]
                            THEN /\ progress_bar' =
                                      <<"mining", Max(cutoff_time - next_elapsed, 0), bd>>
                                 /\ last_elapsed' = [last_elapsed EXCEPT ![i] = next_elapsed]
                                 /\ h_write' =
                                      [who |-> "worker", i |-> i, nonce |-> n,
                                       read |-> timer, shown |-> next_elapsed,
                                       prev |-> IF h_write.who = "worker"
                                                THEN h_write.shown ELSE -1,
                                       running |-> Cardinality(Running),
                                       started |-> spawned, ended |-> joined]
                            ELSE UNCHANGED <<progress_bar, h_write, last_elapsed>>
                  ELSE UNCHANGED <<timer, progress_bar, h_write, last_elapsed>>
  /\ UNCHANGED <<threads, challenge, cutoff_time, fpc, spawned, joined,
                 joined_best, solution, h_start>>

\* the timer advances while a search is in progress
Tick ==
  /\ fpc \in {"spawn", "join"}
  /\ timer < MaxElapsed
  /\ timer' = timer + 1
  /\ UNCHANGED <<threads, challenge, cutoff_time, fpc, spawned, joined,
                 joined_best, progress_bar, h_write, solution>>
  /\ UNCHANGED workerVars

\* lines 275-283: h.join() on the next handle, in spawn order
Join ==
  /\ fpc = "join"
  /\ joined < threads
  /\ JoinReady(wstate[joined])
  /\ joined_best' =
       IF JoinTakes(best_difficulty[joined], joined_best.best_difficulty)
       THEN [best_nonce |-> best_nonce[joined],
             best_difficulty |-> best_difficulty[joined],
             best_hash |-> best_hash[joined]]
       ELSE joined_best
  /\ joined' = joined + 1
  /\ UNCHANGED <<threads, challenge, cutoff_time, fpc, timer, spawned,
                 progress_bar, h_write, solution>>
  /\ UNCHANGED workerVars

\* lines 285-294: final message, build the Solution
Finish ==
  /\ fpc = "join"
  /\ joined = threads
  /\ fpc' = "returned"
  /\ progress_bar' = <<"finished", timer, joined_best.best_difficulty,
                       joined_best.best_hash.h>>
  /\ h_write' = [NoWrite EXCEPT !.who = "controller",
                                !.running = Cardinality(Running),
                                !.started = spawned, !.ended = joined]
  /\ solution' = [d |-> joined_best.best_hash.d, n |-> joined_best.best_nonce]
  /\ UNCHANGED <<threads, challenge, cutoff_time, timer, spawned, joined,
                 joined_best>>
  /\ UNCHANGED workerVars

SearchStep ==
  \/ FindHashParEnter /\ UNCHANGED mineVars
  \/ Spawn
  \/ BeginJoin /\ UNCHANGED mineVars
  \/ \E i \in Workers : WorkerStep(i) /\ UNCHANGED mineVars
  \/ Tick /\ UNCHANGED mineVars
  \/ Join /\ UNCHANGED mineVars
  \/ Finish /\ UNCHANGED mineVars

\* ------------------------------------------------ initial values
IdleSearch ==
  /\ timer = 0 /\ spawned = 0 /\ joined = 0
  /\ joined_best = [best_nonce |-> 0, best_difficulty |-> 0, best_hash |-> DefaultHash]
  /\ progress_bar = <<"none">>
  /\ solution = [d |-> 0, n |-> 0]
  /\ wstate = [i \in Workers |-> "unspawned"]
  /\ nonce = [i \in Workers |-> 0]
  /\ best_nonce = [i \in Workers |-> 0]
  /\ best_difficulty = [i \in Workers |-> 0]
  /\ best_hash = [i \in Workers |-> DefaultHash]
  /\ last_elapsed = [i \in Workers |-> 0]
  /\ h_start = [i \in Workers |-> 0]
  /\ h_hashed = [i \in Workers |-> {}]
  /\ h_overdue = [i \in Workers |-> 0]
  /\ h_exit = [i \in Workers |-> 0]
  /\ h_order = <<>>
  /\ h_write = NoWrite

\* the locals of find_hash_par and of its threads are gone once it has returned
DropSearchLocals ==
  /\ timer' = 0 /\ spawned' = 0 /\ joined' = 0
  /\ joined_best' = [best_nonce |-> 0, best_difficulty |-> 0, best_hash |-> DefaultHash]
  /\ progress_bar' = <<"none">>
  /\ solution' = [d |-> 0, n |-> 0]
  /\ wstate' = [i \in Workers |-> "unspawned"]
  /\ nonce' = [i \in Workers |-> 0]
  /\ best_nonce' = [i \in Workers |-> 0]
  /\ best_difficulty' = [i \in Workers |-> 0]
  /\ best_hash' = [i \in Workers |-> DefaultHash]
  /\ last_elapsed' = [i \in Workers |-> 0]
  /\ h_start' = [i \in Workers |-> 0]
  /\ h_hashed' = [i \in Workers |-> {}]
  /\ h_overdue' = [i \in Workers |-> 0]
  /\ h_exit' = [i \in Workers |-> 0]
  /\ h_order' = <<>>
  /\ h_write' = NoWrite

NoProof == [challenge |-> 0, last_hash_at |-> 0, balance |-> 0]
NoCounts == [ticks |-> 0, queries |-> 0, spawns |-> 0, submits |-> 0]
NoFetch == [wallet |-> 0, staked |-> 0]
NoCheck == [at |-> "none", last_reset_at |-> 0, now |-> 0]
NoLog == [steps |-> <<>>, outcome |-> "none", check |-> NoCheck]

IdleMine ==
  /\ args = [threads |-> 1, buffer_time |-> 0]
  /\ proof = [challenge |-> 0, last_hash_at |-> 0, balance |-> 0]
  /\ clock = 0
  /\ pass = 1
  /\ current_sol_balance = 0 /\ current_staked_balance = 0
  /\ last_sol_balance = 0 /\ last_staked_balance = 0
  /\ session_ore_mined = 0 /\ session_sol_used = 0
  /\ tick = 0 /\ pass_elapsed = 0 /\ shown = 0
  /\ ixs = <<>>
  /\ h_fetch = NoFetch /\ h_prev_fetch = NoFetch
  /\ h_before = [mined |-> 0, spent |-> 0]
  /\ h_count = NoCounts
  /\ h_log = NoLog
  /\ h_real = {}

\* ------------------------------------------------ one search on its own
\* find_hash_par called with any challenge and cutoff, on one or two threads
SearchThreads == {1, 2}

InitSearch ==
  /\ threads \in SearchThreads
  /\ challenge \in Challenges
  /\ cutoff_time \in 0 .. MaxElapsed
  /\ fpc = "call"
  /\ IdleSearch
  /\ mpc = "search_only"
  /\ IdleMine

SpecSearch == InitSearch /\ [][SearchStep]_vars

\* ------------------------------------------------ the spawning of the workers
\* lines 208-222 and 272-274 for every thread count, before any worker runs
InitSpawn ==
  /\ threads \in 1 .. MaxThreads
  /\ challenge \in Challenges
  /\ cutoff_time \in 0 .. MaxElapsed
  /\ fpc = "call"
  /\ IdleSearch
  /\ mpc = "search_only"
  /\ IdleMine

SpawnStep ==
  \/ FindHashParEnter /\ UNCHANGED mineVars
  \/ Spawn
  \/ BeginJoin /\ UNCHANGED mineVars

SpecSpawn == InitSpawn /\ [][SpawnStep]_vars


\* ------------------------------------------------ i64 / u64 arithmetic
Sat(x) == IF x > I64_MAX THEN I64_MAX ELSE IF x < I64_MIN THEN I64_MIN ELSE x
saturating_add(a, b) == Sat(a + b)
saturating_sub(a, b) == Sat(a - b)

\* `x as i64` on a u64: the bit pattern is reinterpreted
AsI64(u) == IF u > I64_MAX THEN u - (U64_MAX + 1) ELSE u

\* `a - b` on u64 in the release profile
WrappingSub(a, b) == (a - b) % (U64_MAX + 1)

\* lines 320-331: Miner::get_cutoff
get_cutoff(last_hash_at, buffer_time, unix_timestamp) ==
  LET retval == Max(saturating_sub(
                      saturating_sub(saturating_add(last_hash_at, NOMINAL_WINDOW),
                                     AsI64(buffer_time)),
                      unix_timestamp), 0)
  IN IF retval = 0
     THEN Max(saturating_sub(NOMINAL_WINDOW, AsI64(buffer_time)), 0)
     ELSE retval

\* a reset test without the five-second buffer
needs_reset_NoBuffer(last_reset_at, unix_timestamp) ==
  saturating_add(last_reset_at, EPOCH_DURATION) <= unix_timestamp

\* lines 310-318: Miner::needs_reset
needs_reset(last_reset_at, unix_timestamp) ==
  saturating_sub(saturating_add(last_reset_at, EPOCH_DURATION), RESET_BUFFER)
    <= unix_timestamp

\* lines 333-362: Miner::get_sol_balance(false); q is the RPC's answer
get_sol_balance(q) == IF q.ok THEN q.balance ELSE 0

\* the staked difference without the clamp
last_pass_ore_mined_Unclamped(curr_staked, prev_staked) == curr_staked - prev_staked

\* lines 93-97: the staked difference, clamped at zero
last_pass_ore_mined(curr_staked, prev_staked) ==
  IF curr_staked - prev_staked < 0 THEN 0 ELSE curr_staked - prev_staked

\* the wallet difference without the clamp
last_pass_sol_used_Unclamped(curr_sol, prev_sol) == curr_sol - prev_sol

\* lines 103-107: the wallet difference, zeroed when positive
last_pass_sol_used(curr_sol, prev_sol) ==
  IF curr_sol - prev_sol > 0 THEN 0 ELSE curr_sol - prev_sol

\* a threshold test that also waits on a balance equal to the minimum
MustWait_OrEqual(sol) == sol <= MIN_SOL_BALANCE

\* line 161: current_sol_balance < MIN_SOL_BALANCE
MustWait(sol) == sol < MIN_SOL_BALANCE

\* a submission that is sent again when it failed
Retries_OnError(outcome) == outcome = "err"

\* lines 192-194: .await.ok() drops the result; the code sends once
Retries(outcome) == FALSE

\* line 164: for _ in 0..60
CountdownDone(t) == t >= WAIT_TICKS

\* ------------------------------------------------ what the collaborators return
WalletAnswers == {[ok |-> FALSE, balance |-> 0]} \cup
                 {[ok |-> TRUE, balance |-> b] : b \in {2, 5, 6}}
StakedBalances == {1, 3}
FetchTimes == {100}
SubmitTimes == {100, 101, I64_MAX - 3}
ResetTimes == {30, 46, I64_MAX}
SubmitOutcomes == {"ok", "err"}
LastHashAts == {100}
MineChallenges == {0, 3}
MineArgs == {[threads |-> 1, buffer_time |-> 59], [threads |-> 2, buffer_time |-> 60]}
Buses == {0, 1}

\* ------------------------------------------------ Miner::mine
\* lines 59-72: start of a pass, fetch proof, cutoff and balances
FetchState ==
  /\ mpc = "fetch"
  /\ \E c \in MineChallenges, lha \in LastHashAts, now \in FetchTimes,
        bal \in StakedBalances, q \in WalletAnswers :
       /\ proof' = [challenge |-> c, last_hash_at |-> lha, balance |-> bal]
       /\ clock' = now
       /\ cutoff_time' = get_cutoff(lha, args.buffer_time, now)
       /\ current_sol_balance' = get_sol_balance(q)
       /\ current_staked_balance' = bal
       /\ h_fetch' = [wallet |-> get_sol_balance(q), staked |-> bal]
       /\ h_real' = IF q.ok THEN h_real \cup {q.balance} ELSE h_real
  /\ h_prev_fetch' = h_fetch
  /\ h_before' = [mined |-> session_ore_mined, spent |-> session_sol_used]
  /\ h_count' = [NoCounts EXCEPT !.queries = 1]
  /\ h_log' = [NoLog EXCEPT !.steps = <<"FetchState">>]
  /\ mpc' = "summarize"
  /\ UNCHANGED <<args, pass, last_sol_balance, last_staked_balance,
                 session_ore_mined, session_sol_used, tick, pass_elapsed, shown,
                 ixs>>
  /\ UNCHANGED <<threads, challenge, fpc, timer, spawned, joined, joined_best,
                 progress_bar, h_write, solution>>
  /\ UNCHANGED workerVars

\* a pass that goes from the fetch to the balance test without the summary
Summarize_Skipped ==
  /\ mpc = "summarize"
  /\ mpc' = "evaluate"
  /\ UNCHANGED <<args, proof, clock, pass, current_sol_balance,
                 current_staked_balance, last_sol_balance, last_staked_balance,
                 session_ore_mined, session_sol_used, tick, pass_elapsed, shown,
                 ixs, h_fetch, h_prev_fetch, h_before, h_real, h_count, h_log>>
  /\ UNCHANGED searchVars

\* lines 90-122: tally the previous pass, then store this pass's balances
Summarize ==
  /\ mpc = "summarize"
  /\ IF pass > 1
     THEN /\ session_ore_mined' = session_ore_mined +
               last_pass_ore_mined(current_staked_balance, last_staked_balance)
          /\ session_sol_used' = session_sol_used -
               last_pass_sol_used(current_sol_balance, last_sol_balance)
     ELSE UNCHANGED <<session_ore_mined, session_sol_used>>
  /\ last_sol_balance' = current_sol_balance
  /\ last_staked_balance' = current_staked_balance
  /\ h_log' = [h_log EXCEPT !.steps = Append(@, "Summarize")]
  /\ mpc' = "evaluate"
  /\ UNCHANGED <<args, proof, clock, pass, current_sol_balance,
                 current_staked_balance, tick, pass_elapsed, shown, ixs,
                 h_fetch, h_prev_fetch, h_before, h_real, h_count>>
  /\ UNCHANGED searchVars

\* line 161: wait for funds, or call find_hash_par (line 180)
EvaluateBalance ==
  /\ mpc = "evaluate"
  /\ IF MustWait(current_sol_balance)
     THEN /\ mpc' = "wait"
          /\ tick' = 0
          \* the whole seconds lines 62-72 took, which line 166 reads first
          /\ \E d \in 0 .. MaxDrift : pass_elapsed' = d
          /\ UNCHANGED <<threads, challenge, fpc>>
     ELSE /\ mpc' = "search"
          /\ threads' = args.threads
          /\ challenge' = proof.challenge
          /\ fpc' = "call"
          /\ UNCHANGED <<tick, pass_elapsed>>
  /\ h_log' = [h_log EXCEPT !.steps = Append(@, "EvaluateBalance")]
  /\ UNCHANGED <<args, proof, clock, pass, current_sol_balance,
                 current_staked_balance, last_sol_balance, last_staked_balance,
                 session_ore_mined, session_sol_used, shown, ixs,
                 h_fetch, h_prev_fetch, h_before, h_real, h_count>>
  /\ UNCHANGED <<cutoff_time, timer, spawned, joined, joined_best,
                 progress_bar, h_write, solution>>
  /\ UNCHANGED workerVars

\* lines 164-171: one countdown message and one sleep of at least a second
WaitTick ==
  /\ mpc = "wait"
  /\ ~CountdownDone(tick)
  /\ shown' = WrappingSub(WAIT_TICKS, pass_elapsed)
  /\ \E d \in 1 .. (1 + MaxDrift) :
       /\ pass_elapsed + d - (tick + 1) <= MaxDrift
       /\ pass_elapsed' = pass_elapsed + d
  /\ tick' = tick + 1
  /\ h_count' = [h_count EXCEPT !.ticks = @ + 1]
  /\ UNCHANGED <<h_log, mpc, args, proof, clock, pass, current_sol_balance,
                 current_staked_balance, last_sol_balance, last_staked_balance,
                 session_ore_mined, session_sol_used, ixs,
                 h_fetch, h_prev_fetch, h_before, h_real>>
  /\ UNCHANGED searchVars

\* lines 172-176: the final message of the countdown
WaitFinish ==
  /\ mpc = "wait"
  /\ CountdownDone(tick)
  /\ shown' = WrappingSub(WAIT_TICKS, pass_elapsed)
  /\ h_log' = [h_log EXCEPT !.steps = Append(@, "WaitForFunds")]
  /\ mpc' = "end"
  /\ UNCHANGED <<args, proof, clock, pass, current_sol_balance,
                 current_staked_balance, last_sol_balance, last_staked_balance,
                 session_ore_mined, session_sol_used, tick, pass_elapsed, ixs,
                 h_fetch, h_prev_fetch, h_before, h_real, h_count>>
  /\ UNCHANGED searchVars

\* lines 183-194: find_hash_par has returned; build and send the instructions
Submit ==
  /\ mpc = "search"
  /\ fpc = "returned"
  /\ \E now \in SubmitTimes, last_reset_at \in ResetTimes, bus \in Buses,
        outcome \in SubmitOutcomes :
       /\ clock' = now
       /\ ixs' = (IF needs_reset(last_reset_at, now) THEN <<[op |-> "reset"]>> ELSE <<>>)
                 \o <<[op |-> "mine", bus |-> bus, solution |-> solution]>>
       /\ h_log' = [steps |-> Append(h_log.steps, "SearchAndSubmit"),
                    outcome |-> outcome,
                    check |-> [at |-> fpc, last_reset_at |-> last_reset_at,
                               now |-> now]]
       /\ IF Retries(outcome)
          THEN \* the instructions would be sent once more
               /\ UNCHANGED <<fpc, mpc>>
               /\ UNCHANGED <<timer, spawned, joined, joined_best, progress_bar,
                              solution, h_write>>
               /\ UNCHANGED workerVars
          ELSE /\ fpc' = "idle"
               /\ mpc' = "end"
               /\ DropSearchLocals
  /\ h_count' = [h_count EXCEPT !.submits = Min(@ + 1, 2)]
  /\ UNCHANGED <<args, proof, pass, current_sol_balance,
                 current_staked_balance, last_sol_balance, last_staked_balance,
                 session_ore_mined, session_sol_used, tick, pass_elapsed, shown,
                 h_fetch, h_prev_fetch, h_before, h_real>>
  /\ UNCHANGED <<threads, challenge, cutoff_time>>

\* lines 197-202: pass += 1 and loop
EndPass ==
  /\ mpc = "end"
  /\ pass < MaxPass
  /\ pass' = pass + 1
  /\ mpc' = "fetch"
  \* the locals of the loop body go out of scope
  /\ proof' = NoProof /\ clock' = 0 /\ cutoff_time' = 0
  /\ tick' = 0 /\ pass_elapsed' = 0 /\ shown' = 0 /\ ixs' = <<>>
  /\ threads' = 1 /\ challenge' = 0
  /\ UNCHANGED <<h_log, args, current_sol_balance,
                 current_staked_balance, last_sol_balance, last_staked_balance,
                 session_ore_mined, session_sol_used,
                 h_fetch, h_prev_fetch, h_before, h_real, h_count>>
  /\ UNCHANGED <<fpc, timer, spawned, joined, joined_best, progress_bar, h_write, solution>>
  /\ UNCHANGED workerVars

MineStep ==
  \/ FetchState
  \/ Summarize
  \/ EvaluateBalance
  \/ WaitTick
  \/ WaitFinish
  \/ Submit
  \/ EndPass

\* ------------------------------------------------ the mining loop
InitMine ==
  /\ args \in MineArgs
  /\ mpc = "fetch"
  /\ proof = [challenge |-> 0, last_hash_at |-> 0, balance |-> 0]
  /\ clock = 0
  /\ pass = 1
  /\ current_sol_balance = 0 /\ current_staked_balance = 0
  /\ last_sol_balance = 0 /\ last_staked_balance = 0
  /\ session_ore_mined = 0 /\ session_sol_used = 0
  /\ tick = 0 /\ pass_elapsed = 0 /\ shown = 0
  /\ ixs = <<>>
  /\ h_fetch = NoFetch /\ h_prev_fetch = NoFetch
  /\ h_before = [mined |-> 0, spent |-> 0]
  /\ h_count = NoCounts
  /\ h_log = NoLog
  /\ h_real = {}
  /\ threads = 1 /\ challenge = 0 /\ cutoff_time = 0
  /\ fpc = "idle"
  /\ IdleSearch

Next == MineStep \/ SearchStep

Spec == InitMine /\ [][Next]_vars

\* ------------------------------------------------ get_cutoff on its own
CutoffTimes == {I64_MIN, I64_MIN + 1, -1, 0, 1, 59, 60, 61, 100, I64_MAX - 61,
                I64_MAX - 1, I64_MAX}
CutoffBuffers == {0, 1, 2, 59, 60, 61, I64_MAX, I64_MAX + 1, U64_MAX}

InitCutoff ==
  /\ mpc = "cutoff_call"
  /\ \E lha \in CutoffTimes : proof = [challenge |-> 0, last_hash_at |-> lha, balance |-> 0]
  /\ clock \in CutoffTimes
  /\ \E b \in CutoffBuffers : args = [threads |-> 1, buffer_time |-> b]
  /\ pass = 1
  /\ current_sol_balance = 0 /\ current_staked_balance = 0
  /\ last_sol_balance = 0 /\ last_staked_balance = 0
  /\ session_ore_mined = 0 /\ session_sol_used = 0
  /\ tick = 0 /\ pass_elapsed = 0 /\ shown = 0
  /\ ixs = <<>>
  /\ h_fetch = NoFetch /\ h_prev_fetch = NoFetch
  /\ h_before = [mined |-> 0, spent |-> 0]
  /\ h_count = NoCounts
  /\ h_log = NoLog
  /\ h_real = {}
  /\ threads = 1 /\ challenge = 0 /\ cutoff_time = 0
  /\ fpc = "idle"
  /\ IdleSearch

\* line 65: self.get_cutoff(proof, args.buffer_time)
GetCutoffCall ==
  /\ mpc = "cutoff_call"
  /\ cutoff_time' = get_cutoff(proof.last_hash_at, args.buffer_time, clock)
  /\ mpc' = "cutoff_done"
  /\ UNCHANGED <<h_log, args, proof, clock, pass, current_sol_balance,
                 current_staked_balance, last_sol_balance, last_staked_balance,
                 session_ore_mined, session_sol_used, tick, pass_elapsed, shown,
                 ixs, h_fetch, h_prev_fetch, h_before, h_real, h_count>>
  /\ UNCHANGED <<threads, challenge, fpc, timer, spawned, joined, joined_best,
                 progress_bar, h_write, solution>>
  /\ UNCHANGED workerVars

SpecCutoff == InitCutoff /\ [][GetCutoffCall]_vars

\* ================================================ the claims
\* the block of worker i among t workers: from its start point up to the
\* next worker's start point, the last block ending at MAX_NONCE
BlockEnd(i, t) == IF i = t - 1 THEN MAX_NONCE ELSE (i + 1) * (MAX_NONCE \div t)
Block(i, t) == {n \in Nonces : i * (MAX_NONCE \div t) <= n /\ n < BlockEnd(i, t)}
Spawned == {i \in Workers : i < spawned}
Pool == {i \in Workers : i < threads}

\* C1: in a search with two or more workers, every nonce a worker has hashed
\* lies inside its own block, no nonce has been hashed by two workers, and no
\* worker's nonce is past the upper bound of its block.
C1_WorkersStayInBlock ==
  threads >= 2 =>
    \A i \in Spawned :
      /\ h_hashed[i] \subseteq Block(i, threads)
      /\ \A j \in Spawned \ {i} : h_hashed[i] \cap h_hashed[j] = {}
      /\ wstate[i] # "unspawned" => nonce[i] <= BlockEnd(i, threads)

\* C2: worker i starts at i * (MAX_NONCE div T); the start points are strictly
\* increasing and the blocks between consecutive start points (the last one
\* ending at MAX_NONCE) cover every nonce of 0 .. MAX_NONCE - 1 exactly once.
C2_BlocksPartition ==
  /\ \A i \in Spawned : h_start[i] = i * (MAX_NONCE \div threads)
  /\ fpc = "join" =>
       /\ h_start[0] = 0
       /\ \A i \in Pool : i + 1 < threads => h_start[i] < h_start[i + 1]
       /\ \A n \in 0 .. (MAX_NONCE - 1) :
            Cardinality({i \in Pool :
                           /\ h_start[i] <= n
                           /\ n < (IF i + 1 < threads THEN h_start[i + 1] ELSE MAX_NONCE)}) = 1

C2_Witness == fpc = "join" /\ threads = 3 /\ h_start[2] > h_start[1]

\* C3: when the search has returned, the returned difficulty is at least
\* every worker's final local best, and the returned nonce and digest are
\* those of a worker whose local best equals the returned difficulty.
C3_ReturnsMaximum ==
  fpc = "returned" =>
    /\ \A i \in Pool : joined_best.best_difficulty >= best_difficulty[i]
    /\ progress_bar[3] = joined_best.best_difficulty
    /\ \E w \in Pool :
         /\ best_difficulty[w] = joined_best.best_difficulty
         /\ solution.n = best_nonce[w]
         /\ solution.d = best_hash[w].d

C3_Witness ==
  /\ fpc = "returned" /\ threads = 2
  /\ best_difficulty[0] < best_difficulty[1]
  /\ solution.n = best_nonce[1]

\* C4: among the workers that report the maximum difficulty, the one joined
\* first (lowest index) supplies the result, whatever order they finished in.
FirstWithMaxOf(S) ==
  CHOOSE w \in S :
    /\ \A i \in S : best_difficulty[w] >= best_difficulty[i]
    /\ \A i \in S : best_difficulty[i] = best_difficulty[w] => w <= i

C4_FirstJoinedWinsTies ==
  /\ fpc = "returned" =>
       /\ solution.n = best_nonce[FirstWithMaxOf(Pool)]
       /\ solution.d = best_hash[FirstWithMaxOf(Pool)].d
  /\ (fpc = "join" /\ joined > 0) =>
       LET first == FirstWithMaxOf({i \in Pool : i < joined}) IN
         /\ joined_best.best_nonce = best_nonce[first]
         /\ joined_best.best_hash = best_hash[first]

C4_Witness ==
  /\ fpc = "returned" /\ threads = 2
  /\ best_difficulty[0] = best_difficulty[1]
  /\ best_nonce[0] # best_nonce[1]
  /\ h_order = <<1, 0>>
  /\ solution.n = best_nonce[0]

\* C5: a worker that has finished broke out at a check-point where the
\* elapsed seconds it read were at least the deadline.
C5_NoExitBeforeDeadline ==
  \A i \in Pool : wstate[i] = "done" =>
    /\ h_exit[i] >= cutoff_time
    /\ nonce[i] % CHECK_EVERY = 0

C5_Witness ==
  \E i \in Pool :
    /\ wstate[i] = "done" /\ cutoff_time = MaxElapsed
    /\ best_nonce[i] # nonce[i]
    /\ FloorMet(difficulty(hash_with_memory(challenge, h_start[i]).hx))

\* C6: once the deadline has passed and a worker's best exceeds the floor,
\* the worker hashes at most CHECK_EVERY further nonces; it stops only at a
\* multiple of CHECK_EVERY, and it is not running past a check-point at which
\* both conditions held.
C6_StopsWithinOnePeriod ==
  \A i \in Pool :
    /\ h_overdue[i] <= CHECK_EVERY
    /\ wstate[i] = "done" =>
         /\ nonce[i] % CHECK_EVERY = 0
         /\ timer >= cutoff_time
         /\ best_difficulty[i] > MIN_DIFFICULTY
    /\ (wstate[i] = "running" /\ h_overdue[i] > 0) =>
         ((nonce[i] - 1) % (MAX_NONCE + 1)) % CHECK_EVERY # 0

C6_Witness ==
  \E i \in Pool : wstate[i] = "done" /\ h_overdue[i] = CHECK_EVERY

\* C7: get_cutoff returns q = last_hash_at + 60 - buffer_time - now when
\* q > 0 and max(0, 60 - buffer_time) when q <= 0, for all inputs; the result
\* is never negative and is 0 only when buffer_time >= 60.
C7_CutoffFormula ==
  mpc = "cutoff_done" =>
    LET q == proof.last_hash_at + NOMINAL_WINDOW - args.buffer_time - clock IN
      /\ cutoff_time >= 0
      /\ q > 0 => cutoff_time = q
      /\ q <= 0 => cutoff_time = Max(0, NOMINAL_WINDOW - args.buffer_time)
      /\ cutoff_time = 0 => args.buffer_time >= NOMINAL_WINDOW

C7_Witness ==
  /\ mpc = "cutoff_done"
  /\ args.buffer_time > I64_MAX
  /\ cutoff_time > 0

\* C8: the totals stay 0 on pass 1; on a later pass the summary adds
\* max(0, staked - previous staked) and max(0, previous wallet - wallet),
\* the previous values being those fetched in the pass before; at the end of
\* every pass the stored balances are the ones fetched in that pass.
C8_SessionDeltas ==
  /\ pass = 1 => session_ore_mined = 0 /\ session_sol_used = 0
  /\ (pass > 1 /\ mpc \in {"evaluate", "wait", "search", "end"}) =>
       /\ session_ore_mined =
            h_before.mined + Max(0, h_fetch.staked - h_prev_fetch.staked)
       /\ session_sol_used =
            h_before.spent + Max(0, h_prev_fetch.wallet - h_fetch.wallet)
  /\ mpc = "end" =>
       /\ last_sol_balance = h_fetch.wallet
       /\ last_staked_balance = h_fetch.staked

C8_Witness ==
  /\ pass = 2 /\ mpc = "end"
  /\ h_count.ticks = WAIT_TICKS
  /\ h_fetch.wallet < h_prev_fetch.wallet
  /\ h_fetch.staked > h_prev_fetch.staked
  /\ session_sol_used = h_prev_fetch.wallet - h_fetch.wallet
  /\ session_ore_mined = h_fetch.staked - h_prev_fetch.staked

\* C9: the session totals never decrease from one step to the next and are
\* never negative.
C9_TotalsNeverDecrease ==
  [][ /\ session_ore_mined' >= session_ore_mined
      /\ session_sol_used' >= session_sol_used
      /\ session_ore_mined' >= 0
      /\ session_sol_used' >= 0 ]_vars

C9_Witness ==
  /\ pass = 2 /\ mpc = "evaluate"
  /\ h_fetch.staked < h_prev_fetch.staked
  /\ h_fetch.wallet > h_prev_fetch.wallet
  /\ session_ore_mined = 0 /\ session_sol_used = 0

\* C10: a pass whose fetched wallet balance is below the minimum ends after
\* exactly 60 countdown ticks of at least a second each, one balance query,
\* no worker spawned and no submission; a balance at or above the minimum
\* makes no tick and goes through the search and one submission.
C10_WaitForFunds ==
  /\ mpc = "wait" =>
       /\ h_fetch.wallet < MIN_SOL_BALANCE
       /\ fpc = "idle" /\ \A i \in Workers : wstate[i] = "unspawned"
       /\ h_count.ticks = tick /\ tick <= WAIT_TICKS
       /\ pass_elapsed >= tick
  /\ mpc = "search" => h_fetch.wallet >= MIN_SOL_BALANCE /\ h_count.ticks = 0
  /\ mpc = "end" =>
       IF h_fetch.wallet < MIN_SOL_BALANCE
       THEN h_count = [ticks |-> WAIT_TICKS, queries |-> 1, spawns |-> 0, submits |-> 0]
       ELSE h_count = [ticks |-> 0, queries |-> 1, spawns |-> args.threads, submits |-> 1]

C10_Witness ==
  /\ mpc = "end" /\ h_fetch.wallet = 2
  /\ h_count.ticks = WAIT_TICKS /\ h_count.submits = 0

\* the steps of the current pass that are finished, in the order they ran
PassSteps == h_log.steps
BranchSteps == {"WaitForFunds", "SearchAndSubmit"}

\* C11 as stated: whenever the Summarize step of a pass has run, the wait or
\* the search-and-submit of that pass has finished before it.
C11_SummaryAfterBranch ==
  \A k \in 1 .. Len(PassSteps) :
    PassSteps[k] = "Summarize" =>
      \E j \in 1 .. (k - 1) : PassSteps[j] \in BranchSteps

\* C11 amended: the steps of a pass run in the order FetchState, Summarize,
\* EvaluateBalance, then WaitForFunds or SearchAndSubmit, and the next pass
\* begins only after that: the Summarize step runs before the wait or the
\* search of its pass begins.
C11_SummaryBeforeBranch ==
  /\ mpc = "summarize" => PassSteps = <<"FetchState">>
  /\ mpc = "evaluate" => PassSteps = <<"FetchState", "Summarize">>
  /\ mpc \in {"wait", "search"} =>
       PassSteps = <<"FetchState", "Summarize", "EvaluateBalance">>
  /\ (mpc = "end" \/ (mpc = "fetch" /\ pass > 1)) =>
       /\ Len(PassSteps) = 4
       /\ SubSeq(PassSteps, 1, 3) = <<"FetchState", "Summarize", "EvaluateBalance">>
       /\ PassSteps[4] \in BranchSteps
       /\ PassSteps[4] = "WaitForFunds" <=> h_count.ticks = WAIT_TICKS
       /\ PassSteps[4] = "SearchAndSubmit" <=> h_count.submits = 1

C11_Witness ==
  /\ pass = 2 /\ mpc = "end"
  /\ PassSteps[4] = "SearchAndSubmit"
  /\ last_staked_balance = current_staked_balance
  /\ h_prev_fetch.staked # h_fetch.staked

\* what holds of the workers at each point of the controller
WorkersWithinSearch ==
  /\ fpc = "returned" =>
       /\ h_count.spawns = threads
       /\ \A i \in Pool : wstate[i] = "done"
  /\ fpc = "join" => \A i \in Pool : i < joined => wstate[i] = "done"
  /\ fpc = "spawn" => \A i \in Workers : i >= spawned => wstate[i] = "unspawned"
  /\ Running # {} =>
       /\ mpc = "search" /\ fpc \in {"spawn", "join"}
       /\ h_count.submits = 0 /\ ixs = <<>>
  /\ mpc # "search" => \A i \in Workers : wstate[i] = "unspawned"
  /\ (mpc = "end" /\ h_count.submits = 1) => h_count.spawns = args.threads

\* C12: the search returns, and the controller builds and submits, only when
\* every worker spawned for that pass has terminated; every pass spawns its
\* workers anew; no worker is running once the controller is past the join;
\* and no step of the controller's loop is taken while a worker runs.
C12_JoinBarrier ==
  [][/\ WorkersWithinSearch'
     /\ Running # {} =>
          UNCHANGED <<mpc, pass, proof, clock, ixs, current_sol_balance,
                      current_staked_balance, last_sol_balance,
                      last_staked_balance, session_ore_mined, session_sol_used,
                      h_log>>]_vars

C12_Witness ==
  /\ pass = 2 /\ mpc = "search" /\ fpc = "returned"
  /\ threads = 2 /\ h_order = <<1, 0>>
  /\ h_count.spawns = 2

\* C13: a write to the progress bar made while workers run is made by worker
\* 0, at a check-point whose deadline test read an elapsed time below the
\* deadline, and shows a whole second other than the one of that worker's
\* previous write; the controller writes only before the first spawn and
\* after the last join, when no worker is running.
C13_OneProgressWriter ==
  /\ h_write.who \in {"none", "controller", "worker"}
  /\ h_write.who = "none" <=> progress_bar = <<"none">>
  /\ h_write.who = "worker" =>
       /\ h_write.i = 0
       /\ h_write.nonce % CHECK_EVERY = 0
       /\ h_write.read < cutoff_time
       /\ h_write.shown # h_write.prev
       /\ h_write.running >= 1
       /\ progress_bar[1] = "mining"
  /\ h_write.who = "controller" =>
       /\ h_write.running = 0
       /\ h_write.started = 0 \/ h_write.ended = threads
       /\ progress_bar[1] \in {"to go", "finished"}
  /\ Running # {} /\ h_write.who = "controller" => h_write.started = 0

C13_Witness ==
  /\ threads = 2
  /\ wstate[1] = "running" /\ h_hashed[1] # {}
  /\ h_write.who = "worker" /\ h_write.prev >= 0
  /\ h_write.nonce > 0

\* what the controller keeps from pass to pass
Carried == <<session_ore_mined, session_sol_used, last_sol_balance,
             last_staked_balance, pass>>

\* C14: the step that leaves the search has sent the instructions exactly
\* once, whatever the outcome, and has left the session totals, the stored
\* previous balances and the pass index as they were; the step that follows
\* adds exactly 1 to the pass index, changes nothing else of these, and
\* leads to the fetch of the next pass.
C14_OutcomeIgnored ==
  [][/\ (mpc = "search" /\ h_log'.outcome # "none") =>
          /\ h_log'.outcome \in SubmitOutcomes
          /\ mpc' = "end"
          /\ h_count'.submits = 1
          /\ Carried' = Carried
     /\ (mpc = "search" /\ mpc' # "search") => h_log'.outcome # "none"
     /\ (mpc = "end" /\ mpc' # "end") =>
          /\ mpc' = "fetch"
          /\ pass' = pass + 1
          /\ <<session_ore_mined, session_sol_used, last_sol_balance,
                last_staked_balance>>' =
             <<session_ore_mined, session_sol_used, last_sol_balance,
               last_staked_balance>>]_vars

C14_Witness ==
  /\ pass = 2 /\ mpc = "fetch"
  /\ h_log.outcome = "err"
  /\ h_count.submits = 1

\* a challenge none of whose nonces hashes to a difficulty above the floor
Barren(c) ==
  \A n \in Nonces :
    LET r == hash_with_memory(c, n)
    IN  r.ok => difficulty(r.hx) <= MIN_DIFFICULTY

\* C15: a worker has stopped only with a best above the floor, however late
\* it is; in a search whose candidates all stay at or below the floor no
\* worker stops and the search does not return, so a pass that entered such
\* a search never reaches its end, and no pass follows it.
C15_SoftDeadline ==
  /\ \A i \in Pool : wstate[i] = "done" => best_difficulty[i] > MIN_DIFFICULTY
  /\ (mpc = "search" /\ Barren(challenge)) =>
       /\ fpc # "returned"
       /\ \A i \in Workers : wstate[i] # "done"
       /\ h_count.submits = 0
  /\ (mpc \in {"end", "fetch"} /\ h_log.steps # <<>> /\ h_log.check.at = "none") =>
       PassSteps[Len(PassSteps)] = "WaitForFunds"
  /\ (mpc = "end" /\ Barren(proof.challenge)) => h_count.submits = 0

C15_Witness ==
  /\ mpc = "search" /\ fpc = "join" /\ Barren(challenge)
  /\ threads = 2 /\ cutoff_time = 0 /\ timer = MaxElapsed
  /\ \A i \in Pool : wstate[i] = "running" /\ h_hashed[i] = Nonces
  /\ \E i \in Pool : best_difficulty[i] = MIN_DIFFICULTY

\* worker i takes one iteration of its loop in this step
Iterates(i) ==
  /\ wstate[i] = "running"
  /\ nonce'[i] # nonce[i] \/ wstate'[i] = "done"

\* the hash of worker i's current nonce fails
HashFails(i) == ~hash_with_memory(challenge, nonce[i]).ok

\* the stop condition as worker i finds it after hashing its current nonce
StopsHere(i) ==
  /\ nonce[i] % CHECK_EVERY = 0
  /\ timer >= cutoff_time
  /\ best_difficulty'[i] > MIN_DIFFICULTY

Submitted == mpc = "end" /\ h_count.submits = 1

\* the list is a mine instruction, with or without a reset before it
OneMineLast ==
  /\ Len(ixs) \in {1, 2}
  /\ ixs[Len(ixs)].op = "mine"
  /\ Len(ixs) = 2 => ixs[1].op = "reset"

HasReset == Len(ixs) = 2 /\ ixs[1].op = "reset"

\* C17 as stated: the list sent has exactly one mine instruction, the last;
\* a reset precedes it iff last_reset_at + EPOCH_DURATION - 5 <= now for the
\* values the reset check saw; and the check ran before the search was called.
C17_ResetCheckedBeforeSearch ==
  Submitted =>
    /\ OneMineLast
    /\ HasReset <=>
         h_log.check.last_reset_at + EPOCH_DURATION - 5 <= h_log.check.now
    /\ h_log.check.at = "idle"

\* C17 amended: the list sent has exactly one mine instruction, the last; a
\* reset precedes it iff last_reset_at + EPOCH_DURATION, held at the largest
\* i64 when it exceeds it, less 5 is at most now, for the values the reset
\* check saw; and the check ran after the search had returned.
C17_ResetCheckedAfterSearch ==
  Submitted =>
    /\ OneMineLast
    /\ LET sum == h_log.check.last_reset_at + EPOCH_DURATION
           held == IF sum > I64_MAX THEN I64_MAX ELSE sum
       IN  HasReset <=> held - 5 <= h_log.check.now
    /\ h_log.check.at = "returned"
    /\ h_log.check.now = clock

C17_Witness ==
  /\ Submitted /\ HasReset
  /\ h_log.check.last_reset_at = I64_MAX
  /\ h_log.check.at = "returned"
  /\ pass = 2

\* worker i has stopped, at a check-point, late, with a best above the floor
StoppedOnItsOwn(i) ==
  /\ wstate[i] = "done"
  /\ nonce[i] % CHECK_EVERY = 0
  /\ h_exit[i] >= cutoff_time
  /\ best_difficulty[i] > MIN_DIFFICULTY

\* C18: the search has returned only if every worker has itself stopped at a
\* check-point with the deadline passed and its own best above the floor, so
\* it has not returned while some worker's best is at or below the floor,
\* whatever the others have found; and once every worker has stopped so,
\* the join and the return are no longer held up.
C18_EveryWorkerMustStop ==
  /\ fpc = "returned" => \A i \in Pool : StoppedOnItsOwn(i)
  /\ \A i \in Pool : wstate[i] = "done" => StoppedOnItsOwn(i)
  /\ (\E i \in Pool : best_difficulty[i] <= MIN_DIFFICULTY) =>
       /\ fpc # "returned"
       /\ fpc = "join" => joined < threads
  /\ (fpc = "join" /\ \A i \in Pool : StoppedOnItsOwn(i)) => ENABLED (Join \/ Finish)
  /\ (fpc = "join" /\ joined < threads /\ wstate[joined] # "done") =>
       ~ENABLED (Join \/ Finish)

\* the deadline has passed and worker 0 has stopped with a best above the
\* floor; the controller has joined it and waits for worker 1, which has
\* hashed a nonce and found nothing above the floor
C18_Witness ==
  /\ threads = 2 /\ fpc = "join" /\ joined = 1
  /\ timer >= cutoff_time
  /\ StoppedOnItsOwn(0)
  /\ wstate[1] = "running" /\ h_hashed[1] # {}
  /\ best_difficulty[1] <= MIN_DIFFICULTY

\* C19: every remaining-seconds value the countdown has shown, at its 60
\* updates and at its final message, lies between 0 and 60.
C19_CountdownInRange ==
  (mpc \in {"wait", "end"} /\ h_count.ticks >= 1) => shown \in 0 .. 60

\* the countdown is over and every one of its sleeps lasted exactly one
\* second; the final message was computed with more than 60 seconds elapsed
C19_Witness ==
  /\ mpc = "end" /\ h_count.ticks = WAIT_TICKS
  /\ pass_elapsed = WAIT_TICKS + 1
  /\ shown > 60

\* the wallet query of the current pass failed (a wallet that answers holds
\* a positive balance)
QueryFailed == h_log.steps # <<>> /\ h_fetch.wallet = 0

\* C20: a pass whose wallet query failed sees a balance of zero and goes to
\* the wait, never to the search; and while every query that succeeded has
\* returned one and the same balance, the session's spend stays 0.
C20_FailureNotCountedAsSpend ==
  /\ QueryFailed =>
       /\ current_sol_balance = 0
       /\ mpc # "search"
       /\ mpc = "end" => PassSteps[4] = "WaitForFunds"
  /\ Cardinality(h_real) <= 1 => session_sol_used = 0

\* the wallet held 6 all along; the query of pass 2 failed and the summary
\* of pass 2 has run
C20_Witness ==
  /\ pass = 2 /\ mpc = "wait"
  /\ QueryFailed
  /\ h_real = {6} /\ h_prev_fetch.wallet = 6
  /\ session_sol_used = 6

====
